---------------------------- MODULE Spec2Model ----------------------------
(***************************************************************************)
(* Model of async-linux-spec-fd: the SIGCHLD-driven Reaper                 *)
(* (src/src/children_reaper.rs), its registry (a WaitMap keyed by pid),    *)
(* the two decoders of the kernel's exit record (children_reaper.rs        *)
(* ExitInfo accessors, pid_fd.rs ExitInfo::new), PidFd (src/src/pid_fd.rs) *)
(* over Fd (src/src/fd.rs), autorestart (src/src/utility.rs) and SignalFd  *)
(* (src/src/signal_fd.rs, src/src/signal_mask.rs).                         *)
(*                                                                         *)
(* The kernel side (children, zombies, pid recycling, descriptors, signal  *)
(* masks and pending signals, what waitid(2) and read(2) answer) is        *)
(* modelled as the environment the code calls into.                        *)
(***************************************************************************)
EXTENDS Integers, FiniteSets, Sequences, TLC

VARIABLES
    child,        \* kernel: pid -> [st, gen, si_code, si_status]
    spawned,      \* kernel: number of children created so far
    sigchld,      \* kernel: SIGCHLD pending on the signalfd (standard signal: one bit)
    others,       \* kernel: the process has further children, which stay alive
    holders,      \* Arc<Reaper> clones held outside the background task
    pc,           \* position of the task running Reaper::reap
    fault,        \* the system-call error that ended Reaper::reap, if any
    map,          \* Reaper.map: pid -> NoVal or the inserted ExitInfo
    waiter,       \* tasks inside Reaper::wait
    woke,         \* history: signal_fd.read() has returned at least once
    zAtWake,      \* history: the zombies that existed at the last wake-up
    published,    \* history: every (pid, gen) whose record was ever inserted
    siginfo,      \* decoding: the raw record handed to a decoder
    dpc,          \* decoding: which decoders have run
    exit_status,  \* decoding: Reaper ExitInfo::get_exit_status()
    term_sig,     \* decoding: Reaper ExitInfo::get_term_sig()
    code,         \* decoding: PidFd ExitInfo::get_code()
    traced,       \* kernel: a debugger is attached to the children
    fdtable,      \* kernel: descriptor number -> what the descriptor refers to
    handle,       \* the PidFd values of the program and the call each is in
    script,       \* autorestart: the outcomes the retried operation will have
    calls,        \* autorestart: how often the operation has been invoked
    ret,          \* autorestart: what autorestart returned
    blocked,      \* kernel: the signals blocked for the caller of SignalFd::new
    pending,      \* kernel: the signals pending for the process
    sfd,          \* SignalFd: the mask, how far new() got, the descriptor
    ready,        \* tokio: the cached read-readiness of the signalfd
    reader,       \* the task inside SignalFd::read
    total         \* history: number of records SignalFd::read has returned

procVars == <<child, spawned, sigchld, others>>
reaperVars == <<holders, pc, fault, map, waiter, woke, zAtWake, published>>
decodeVars == <<siginfo, dpc, exit_status, term_sig, code>>
pidfdVars == <<traced, fdtable, handle>>
retryVars == <<script, calls, ret>>
sigfdVars == <<blocked, pending, sfd, ready, reader, total>>
extVars == <<pidfdVars, retryVars, sigfdVars>>
vars == <<child, spawned, sigchld, others, holders, pc, fault, map, waiter, woke,
          zAtWake, published, siginfo, dpc, exit_status, term_sig, code,
          traced, fdtable, handle, script, calls, ret, blocked, pending, sfd, ready,
          reader, total>>

---------------------------------------------------------------------------
(* Bounds of the model *)

MaxSpawn == 2
MaxHolders == 2

Pids == {1, 2}
Waiters == {"t1", "t2"}

---------------------------------------------------------------------------
(* Kernel constants used by the code (values of Linux x86_64) *)

CLD_EXITED == 1
CLD_KILLED == 2
CLD_DUMPED == 3

\* enum Signal (signal.rs): the discriminants accepted by Signal::try_from
Signal ==
    { 17, 18, 20, 21, 22, 23, 28, 6, 14, 7, 8, 1, 4, 2, 29, 9, 13, 27, 30,
      3, 11, 31, 15, 5, 10, 12, 26, 24, 25 }

\* enum ChildTermSignal (children_reaper.rs)
ChildTermSignal ==
    { 6, 14, 7, 8, 1, 4, 2, 29, 9, 13, 27, 30, 3, 11, 31, 15, 5, 10, 12,
      26, 24, 25 }

\* Signals whose default action dumps core, and all signals that can
\* terminate a process (every signal 1..64 except those whose default action
\* is ignore, stop or continue).
CoreSignals == { 3, 4, 5, 6, 7, 8, 11, 24, 25, 31 }
KillingSignals == (1..64) \ { 17, 18, 19, 20, 21, 22, 23, 28 }

\* The records waitid(.., WEXITED | WNOHANG) can return for a dead child.
RawRecords ==
    { [si_code |-> CLD_EXITED, si_status |-> s] : s \in 0..255 }
    \cup { [si_code |-> CLD_KILLED, si_status |-> g] : g \in KillingSignals }
    \cup { [si_code |-> CLD_DUMPED, si_status |-> g] : g \in CoreSignals }

None == <<"None">>
Some(v) == <<"Some", v>>
Panic == <<"panic">>

---------------------------------------------------------------------------
(* Decoding of the kernel's exit record *)

\* `x as i8`
AsI8(x) == IF x % 256 >= 128 THEN (x % 256) - 256 ELSE x % 256

\* libc's wait-status macros, which the Reaper's accessors apply to wstatus
WIFEXITED(status) == (status % 128) = 0
WEXITSTATUS(status) == (status \div 256) % 256
WIFSIGNALED(status) == AsI8((status % 128) + 1) >= 2
WTERMSIG(status) == status % 128

\* Reaper::reap builds the registry's ExitInfo from the raw record: wstatus
\* is si_status; si_code is not kept.
ReapExitInfo(si) == [wstatus |-> si.si_status]

get_exit_status(info) ==
    IF WIFEXITED(info.wstatus) THEN Some(WEXITSTATUS(info.wstatus)) ELSE None

get_term_sig(info) ==
    IF WIFSIGNALED(info.wstatus)
    THEN IF WTERMSIG(info.wstatus) \in ChildTermSignal
         THEN Some(WTERMSIG(info.wstatus))
         ELSE Panic
    ELSE None

\* pid_fd.rs ExitInfo::new followed by get_code()
ExitInfo_new(si) ==
    IF si.si_code = CLD_EXITED
    THEN [code |-> <<"Exited", si.si_status>>]
    ELSE IF si.si_status \in Signal
         THEN [code |-> <<"Killed", si.si_status>>]
         ELSE [code |-> Panic]

get_code(info) == info.code

Unset == <<"unset">>
NoSiginfo == [si_code |-> 0, si_status |-> 0]

\* The Reaper's path: reap stores ExitInfo, wait hands out a copy, the caller
\* applies both accessors.
ReaperDecode ==
    /\ siginfo \in RawRecords
    /\ "reaper" \notin dpc
    /\ dpc' = dpc \cup {"reaper"}
    /\ exit_status' = get_exit_status(ReapExitInfo(siginfo))
    /\ term_sig' = get_term_sig(ReapExitInfo(siginfo))
    /\ UNCHANGED <<siginfo, code>>
    /\ UNCHANGED <<procVars, reaperVars, extVars>>

\* The PidFd path: waitpid decodes with ExitInfo::new, the caller reads get_code.
PidFdDecode ==
    /\ siginfo \in RawRecords
    /\ "pidfd" \notin dpc
    /\ dpc' = dpc \cup {"pidfd"}
    /\ code' = get_code(ExitInfo_new(siginfo))
    /\ UNCHANGED <<siginfo, exit_status, term_sig>>
    /\ UNCHANGED <<procVars, reaperVars, extVars>>

---------------------------------------------------------------------------
(* The kernel: children, zombies, pid recycling, SIGCHLD *)

\* How a child of the model dies: exit(0) or SIGKILL.
Deaths ==
    { [si_code |-> CLD_EXITED, si_status |-> 0],
      [si_code |-> CLD_KILLED, si_status |-> 9] }

FreeSlot(g) == [st |-> "free", gen |-> g, si_code |-> 0, si_status |-> 0]

Zombies == { p \in Pids : child[p].st = "zombie" }
Children == { p \in Pids : child[p].st \in {"running", "zombie"} }

\* fork: the kernel hands out a pid that no unreaped process holds; a pid
\* is recycled once its previous holder has been reaped.  gen tells the
\* successive holders of one pid apart.  Pids are interchangeable: they are
\* numbered in the order of their first use.
Spawn(p) ==
    /\ spawned < MaxSpawn
    /\ child[p].st = "free"
    /\ \A q \in Pids : q < p => child[q].gen >= 1
    /\ child' = [child EXCEPT ![p] = [@ EXCEPT !.st = "running", !.gen = @ + 1]]
    /\ spawned' = spawned + 1
    /\ UNCHANGED <<sigchld, others, reaperVars, decodeVars, extVars>>

\* A child dies: it becomes a zombie and SIGCHLD becomes pending.  SIGCHLD
\* is a standard signal: deaths while it is pending coalesce into one.
Terminate(p, d) ==
    /\ child[p].st = "running"
    /\ child' = [child EXCEPT ![p] =
                    [@ EXCEPT !.st = "zombie", !.si_code = d.si_code,
                              !.si_status = d.si_status]]
    /\ sigchld' = TRUE
    /\ UNCHANGED <<spawned, others, reaperVars, decodeVars, extVars>>

\* waitid(P_ALL, 0, WEXITED | WNOHANG): a zombie if there is one (the kernel
\* picks), "no result" (si_pid = 0) if there are children but no zombie, and
\* the error ECHILD if the caller has no (unreaped) children at all.
waitid ==
    IF Zombies # {}
    THEN { [ret |-> "Some", si_pid |-> p, si_code |-> child[p].si_code,
            si_status |-> child[p].si_status] : p \in Zombies }
    ELSE IF Children # {} \/ others
         THEN { [ret |-> "None", si_pid |-> 0, si_code |-> 0, si_status |-> 0] }
         ELSE { [ret |-> "Err", si_pid |-> 0, si_code |-> 0, si_status |-> 0] }

---------------------------------------------------------------------------
(* Reaper: the Arc, the background task, the registry *)

NoVal == [wstatus |-> -1, of |-> 0]

\* Arc::strong_count(&reaper): the outside holders and the task's own clone
StrongCount == holders + (IF pc \in {"exited", "failed"} THEN 0 ELSE 1)

ArcClone ==
    /\ holders >= 1
    /\ holders < MaxHolders
    /\ holders' = holders + 1
    /\ UNCHANGED <<procVars, pc, fault, map, waiter, woke, zAtWake, published,
                   decodeVars, extVars>>

\* A task suspended in wait(&self) borrows the Reaper through a holder.
ArcDrop ==
    /\ holders >= 1
    /\ holders > 1 \/ \A w \in Waiters : waiter[w].st # "waiting"
    /\ holders' = holders - 1
    /\ UNCHANGED <<procVars, pc, fault, map, waiter, woke, zAtWake, published,
                   decodeVars, extVars>>

LoopCondOffByOne(strong_count) == strong_count # 2

\* `while Arc::strong_count(&reaper) != 1`
LoopCond(strong_count) == strong_count # 1

ReapLoopCond ==
    /\ pc = "check"
    /\ pc' = IF LoopCond(StrongCount) THEN "read" ELSE "exited"
    /\ UNCHANGED <<procVars, holders, fault, map, waiter, woke, zAtWake,
                   published, decodeVars, extVars>>

\* `reaper.signal_fd.read().await?` returns records: the pending SIGCHLD is
\* consumed and the records are dropped unread.
ReapRead ==
    /\ pc = "read"
    /\ sigchld
    /\ sigchld' = FALSE
    /\ pc' = "drain"
    /\ woke' = TRUE
    /\ zAtWake' = { <<p, child[p].gen>> : p \in Zombies }
    /\ UNCHANGED <<child, spawned, others, holders, fault, map, waiter,
                   published, decodeVars, extVars>>

OnErrorRetry == "check"

\* `?` on an Err inside reap, then `.unwrap()` in the spawned task
OnError == "failed"

AfterInsertOnce == "check"

\* `while let Some(..)`: after an insert the drain calls waitid again
AfterInsert == "drain"

\* One iteration of `while let Some(siginfo) = waitid(P_ALL, 0, ..)?`
ReapDrain ==
    /\ pc = "drain"
    /\ \E r \in waitid :
         CASE r.ret = "Some" ->
                /\ child' = [child EXCEPT ![r.si_pid] = FreeSlot(@.gen)]
                /\ map' = [map EXCEPT ![r.si_pid] =
                              [wstatus |-> ReapExitInfo(r).wstatus,
                               of |-> child[r.si_pid].gen]]
                /\ published' = published \cup { <<r.si_pid, child[r.si_pid].gen>> }
                /\ pc' = AfterInsert
                /\ UNCHANGED fault
           [] r.ret = "None" ->
                /\ pc' = "check"
                /\ UNCHANGED <<child, map, published, fault>>
           [] r.ret = "Err" ->
                /\ pc' = OnError
                /\ fault' = "ECHILD"
                /\ UNCHANGED <<child, map, published>>
    /\ UNCHANGED <<spawned, sigchld, others, holders, waiter, woke, zAtWake,
                   decodeVars, extVars>>

\* `reaper.signal_fd.read().await?` returns Err
ReapReadErr ==
    /\ pc = "read"
    /\ pc' = OnError
    /\ fault' = "EIO"
    /\ UNCHANGED <<procVars, holders, map, waiter, woke, zAtWake, published,
                   decodeVars, extVars>>

---------------------------------------------------------------------------
(* Reaper::wait *)

Idle == [st |-> "idle", pid |-> 0, gen |-> 0, val |-> NoVal, napped |-> FALSE,
         post |-> FALSE]

\* A task calls wait(p) for the child that holds pid p now (or held it last).
\* gen, post and napped are history: which holder of the pid the caller
\* means, whether the background task had already failed, and whether
\* map.wait has resolved empty for this call.  Tasks are
\* interchangeable: they are named in the order of their calls.
wait_call(w, p) ==
    /\ waiter[w].st = "idle"
    /\ w = "t2" => waiter["t1"].st # "idle"
    /\ holders >= 1
    /\ child[p].gen >= 1
    /\ waiter' = [waiter EXCEPT ![w] =
                     [st |-> "waiting", pid |-> p, gen |-> child[p].gen,
                      val |-> NoVal, napped |-> FALSE, post |-> fault # "none"]]
    /\ UNCHANGED <<procVars, holders, pc, fault, map, woke, zAtWake, published,
                   decodeVars, extVars>>

WaitStepBreakOnNone(wr, res) == [wr EXCEPT !.st = "done", !.val = res]

\* The body of the loop in wait: `Some(val) => break *(val.value())`,
\* `None => continue`.
WaitStep(wr, res) ==
    IF res # NoVal
    THEN [wr EXCEPT !.st = "done", !.val = res]
    ELSE [wr EXCEPT !.napped = TRUE]

AfterWaitTaken(m, p) == [m EXCEPT ![p] = NoVal]

\* `*(val.value())`: wait copies the value out of the entry, which stays
AfterWait(m, p) == m

\* map.wait(&pid) resolves with the entry of the pid
wait_some(w) ==
    /\ waiter[w].st = "waiting"
    /\ map[waiter[w].pid] # NoVal
    /\ waiter' = [waiter EXCEPT ![w] = WaitStep(@, map[waiter[w].pid])]
    /\ map' = AfterWait(map, waiter[w].pid)
    /\ UNCHANGED <<procVars, holders, pc, fault, woke, zAtWake, published,
                   decodeVars, extVars>>

\* map.wait(&pid) resolves with no value, any number of times
wait_none(w) ==
    /\ waiter[w].st = "waiting"
    /\ waiter' = [waiter EXCEPT ![w] = WaitStep(@, NoVal)]
    /\ UNCHANGED <<procVars, holders, pc, fault, map, woke, zAtWake, published,
                   decodeVars, extVars>>

---------------------------------------------------------------------------
(* PidFd (src/src/pid_fd.rs) and the descriptor it owns (src/src/fd.rs) *)

Handles == {"h1", "h2"}
FdNums == {3, 4}

\* No process instance; in fdtable: the descriptor number is not open
NoInst == <<0, 0>>

\* The kernel hands out the lowest descriptor number that is not open.
FreeFds == { f \in FdNums : fdtable[f] = NoInst }
LowestFree == CHOOSE f \in FreeFds : \A g \in FreeFds : f <= g

OpenFds == FdNums \ FreeFds

\* What a call on a handle gave back
NoRes == [kind |-> "unset", of |-> NoInst, code |-> Unset]
OkUnit == [kind |-> "Ok", of |-> NoInst, code |-> Unset]
Err(e) == [kind |-> "Err", of |-> NoInst, code |-> <<e>>]
PanicRes == [kind |-> "Panic", of |-> NoInst, code |-> Unset]

\* send_signal returned Ok(()); of is history: the process the kernel
\* delivered the signal to
Sent(x) == [kind |-> "Sent", of |-> x, code |-> Unset]

\* No PidFd yet.  of is history: the process the handle was created for;
\* closes is history: how often close(2) ran on the handle's descriptor.
NoHandle == [st |-> "none", fd |-> 0, of |-> NoInst, pc |-> "idle",
             res |-> NoRes, closes |-> 0]

\* The process instance that holds pid p now
Current(p) == <<p, child[p].gen>>

Running(x) ==
    x[1] \in Pids /\ child[x[1]].gen = x[2] /\ child[x[1]].st = "running"
Zombie(x) ==
    x[1] \in Pids /\ child[x[1]].gen = x[2] /\ child[x[1]].st = "zombie"

\* PidFd::from_raw: wraps the descriptor, nothing else
from_raw(hd, fd, x) == [hd EXCEPT !.st = "open", !.fd = fd, !.of = x]

\* PidFd::open(pid): pidfd_open(2) gives a descriptor for the process that
\* holds the pid now; with no such process it fails (ESRCH) and no
\* descriptor exists.  Handles are interchangeable: they are named in the
\* order of their creation.
open(h, p) ==
    /\ handle[h].st = "none"
    /\ h = "h2" => handle["h1"].st # "none"
    /\ IF child[p].st # "free"
       THEN /\ fdtable' = [fdtable EXCEPT ![LowestFree] = Current(p)]
            /\ handle' = [handle EXCEPT ![h] = from_raw(@, LowestFree, Current(p))]
       ELSE /\ handle' = [handle EXCEPT ![h] =
                             [@ EXCEPT !.st = "failed", !.res = Err("ESRCH")]]
            /\ UNCHANGED fdtable
    /\ UNCHANGED <<procVars, reaperVars, decodeVars, traced, retryVars, sigfdVars>>

\* clone(2) with CLONE_PIDFD creates the child and its descriptor at once;
\* the caller adopts the descriptor with PidFd::from_raw.
clone_from_raw(h, p) ==
    /\ handle[h].st = "none"
    /\ h = "h2" => handle["h1"].st # "none"
    /\ spawned < MaxSpawn
    /\ child[p].st = "free"
    /\ \A q \in Pids : q < p => child[q].gen >= 1
    /\ child' = [child EXCEPT ![p] = [@ EXCEPT !.st = "running", !.gen = @ + 1]]
    /\ spawned' = spawned + 1
    /\ fdtable' = [fdtable EXCEPT ![LowestFree] = <<p, child[p].gen + 1>>]
    /\ handle' = [handle EXCEPT ![h] =
                     from_raw(@, LowestFree, <<p, child[p].gen + 1>>)]
    /\ UNCHANGED <<sigchld, others, reaperVars, decodeVars, traced, retryVars,
                   sigfdVars>>

\* pidfd_send_signal(pidfd, ..): the kernel resolves the descriptor
SignalTarget(hd) == fdtable[hd.fd]

\* PidFd::send_signal with SIGKILL: a running target dies of it, a zombie
\* takes it without effect, and for a reaped target the call fails (ESRCH).
send_signal(h) ==
    /\ handle[h].st = "open"
    /\ handle[h].pc = "idle"
    /\ LET x == SignalTarget(handle[h]) IN
         IF Running(x)
         THEN /\ child' = [child EXCEPT ![x[1]] =
                             [@ EXCEPT !.st = "zombie", !.si_code = CLD_KILLED,
                                       !.si_status = 9]]
              /\ sigchld' = TRUE
              /\ handle' = [handle EXCEPT ![h] = [@ EXCEPT !.res = Sent(x)]]
         ELSE IF Zombie(x)
         THEN /\ handle' = [handle EXCEPT ![h] = [@ EXCEPT !.res = Sent(x)]]
              /\ UNCHANGED <<child, sigchld>>
         ELSE /\ handle' = [handle EXCEPT ![h] = [@ EXCEPT !.res = Err("ESRCH")]]
              /\ UNCHANGED <<child, sigchld>>
    /\ UNCHANGED <<spawned, others, reaperVars, decodeVars, traced, fdtable,
                   retryVars, sigfdVars>>

\* A pidfd polls readable once its process has terminated, and stays
\* readable after the process has been reaped.
Readable(x) == ~Running(x)

AwaitSkipped(x) == TRUE

\* `pidfd.readable().await?`: the task goes on once the descriptor is
\* readable
AwaitReadable(x) == Readable(x)

ReleaseRegistrationCloses(t, fd) == [t EXCEPT ![fd] = NoInst]

\* The AsyncFd of wait_for_terminate wraps the RawFd, not the Fd: dropping
\* it removes the registration and leaves the descriptor open.
ReleaseRegistration(t, fd) == t

\* wait_for_terminate(): AsyncFd::with_interest, then readable().await
wait_for_terminate_call(h) ==
    /\ handle[h].st = "open"
    /\ handle[h].pc = "idle"
    /\ handle' = [handle EXCEPT ![h] = [@ EXCEPT !.pc = "wft", !.res = NoRes]]
    /\ UNCHANGED <<procVars, reaperVars, decodeVars, traced, fdtable, retryVars,
                   sigfdVars>>

\* readable().await resolves: wait_for_terminate returns Ok(())
wait_for_terminate_ready(h) ==
    /\ handle[h].pc = "wft"
    /\ AwaitReadable(fdtable[handle[h].fd])
    /\ handle' = [handle EXCEPT ![h] = [@ EXCEPT !.pc = "idle", !.res = OkUnit]]
    /\ fdtable' = ReleaseRegistration(fdtable, handle[h].fd)
    /\ UNCHANGED <<procVars, reaperVars, decodeVars, traced, retryVars, sigfdVars>>

\* waitpid(): first `self.wait_for_terminate().await?`
waitpid_call(h) ==
    /\ handle[h].st = "open"
    /\ handle[h].pc = "idle"
    /\ handle' = [handle EXCEPT ![h] = [@ EXCEPT !.pc = "wp", !.res = NoRes]]
    /\ UNCHANGED <<procVars, reaperVars, decodeVars, traced, fdtable, retryVars,
                   sigfdVars>>

\* the wait_for_terminate inside waitpid returns Ok(())
waitpid_ready(h) ==
    /\ handle[h].pc = "wp"
    /\ AwaitReadable(fdtable[handle[h].fd])
    /\ handle' = [handle EXCEPT ![h] = [@ EXCEPT !.pc = "wp_ready"]]
    /\ fdtable' = ReleaseRegistration(fdtable, handle[h].fd)
    /\ UNCHANGED <<procVars, reaperVars, decodeVars, traced, retryVars, sigfdVars>>

\* The readiness wait fails (the registration with the reactor or the wait
\* itself): `?` hands the error to the caller of either function.
wait_error(h) ==
    /\ handle[h].pc \in {"wft", "wp"}
    /\ handle' = [handle EXCEPT ![h] =
                     [@ EXCEPT !.pc = "idle", !.res = Err("EIO")]]
    /\ fdtable' = ReleaseRegistration(fdtable, handle[h].fd)
    /\ UNCHANGED <<procVars, reaperVars, decodeVars, traced, retryVars, sigfdVars>>

WaitidTargetByPid(hd) == Current(hd.of[1])

WaitidTargetAnyChild(hd) ==
    IF Zombies # {} THEN Current(CHOOSE p \in Zombies : TRUE) ELSE fdtable[hd.fd]

\* waitid(P_PIDFD, pidfd, ..): the kernel resolves the descriptor
WaitidTarget(hd) == fdtable[hd.fd]

\* pid_fd.rs waitid with WEXITED | WNOHANG on the process x: its record if
\* it is a zombie of the caller; "no result" (si_pid = 0) if it runs, or if
\* it is a zombie that a debugger still holds; ECHILD if it is no (unreaped)
\* child of the caller.
waitid_pidfd(x) ==
    IF Zombie(x) /\ ~traced
    THEN [ret |-> "Some", si_pid |-> x[1], si_code |-> child[x[1]].si_code,
          si_status |-> child[x[1]].si_status]
    ELSE IF Zombie(x) \/ Running(x)
         THEN [ret |-> "None", si_pid |-> 0, si_code |-> 0, si_status |-> 0]
         ELSE [ret |-> "Err", si_pid |-> 0, si_code |-> 0, si_status |-> 0]

WaitidErrUnwrapped(e) == PanicRes

\* `waitid(..)?` on Err(e): waitpid returns Err(e)
WaitidErr(e) == Err(e)

UnwrapNoneAsError(r) == Err("EAGAIN")

\* `waitid(..)?.unwrap()` on Ok(None)
UnwrapNone(r) == PanicRes

\* The rest of waitpid: `waitid(P_PIDFD, ..)?.unwrap()`, `ExitInfo::new`
waitpid_waitid(h) ==
    /\ handle[h].pc = "wp_ready"
    /\ LET x == WaitidTarget(handle[h])
           r == waitid_pidfd(x)
       IN CASE r.ret = "Some" ->
                 /\ child' = [child EXCEPT ![x[1]] = FreeSlot(@.gen)]
                 /\ handle' = [handle EXCEPT ![h] =
                                  [@ EXCEPT !.pc = "idle",
                                            !.res = [kind |-> "Info", of |-> x,
                                                     code |-> get_code(ExitInfo_new(r))]]]
            [] r.ret = "None" ->
                 /\ handle' = [handle EXCEPT ![h] =
                                  [@ EXCEPT !.pc = "idle", !.res = UnwrapNone(r)]]
                 /\ UNCHANGED child
            [] r.ret = "Err" ->
                 /\ handle' = [handle EXCEPT ![h] =
                                  [@ EXCEPT !.pc = "idle",
                                            !.res = WaitidErr("ECHILD")]]
                 /\ UNCHANGED child
    /\ UNCHANGED <<spawned, sigchld, others, reaperVars, decodeVars, traced,
                   fdtable, retryVars, sigfdVars>>

\* Drop for Fd: close(2) on the descriptor.  The handle is gone: the model
\* keeps of it only that it was dropped and how often close(2) ran.
Fd_drop(h) ==
    /\ handle[h].st = "open"
    /\ handle[h].pc = "idle"
    /\ fdtable' = [fdtable EXCEPT ![handle[h].fd] = NoInst]
    /\ handle' = [handle EXCEPT ![h] =
                     [NoHandle EXCEPT !.st = "dropped",
                                      !.closes = handle[h].closes + 1]]
    /\ UNCHANGED <<procVars, reaperVars, decodeVars, traced, retryVars, sigfdVars>>

---------------------------------------------------------------------------
(* autorestart (src/src/utility.rs) around Fd::read (src/src/fd.rs) *)

MaxIntr == 4

Ok(n) == <<"Ok", n>>
IoErr(e) == <<"Err", e>>
NoRet == <<"none">>

\* What one read(2) can give: a byte count, or -1 with an errno.
Interrupted == [result |-> -1, errno |-> "EINTR"]
RawOutcomes ==
    { [result |-> n, errno |-> "none"] : n \in {0, 128, 256} }
    \cup { [result |-> -1, errno |-> e] : e \in {"EAGAIN", "EBADF", "EIO"} }

\* m interruptions, then another outcome, then what a further call would give
Scripts ==
    { [i \in 1..(m + 2) |-> IF i <= m THEN Interrupted
                            ELSE IF i = m + 1 THEN f
                            ELSE [result |-> 128, errno |-> "none"]] :
        m \in 0..MaxIntr, f \in RawOutcomes }

\* The closure of Fd::read: `if result < 0 { Err(last_os_error()) } else
\* { Ok(result as usize) }`
Fd_read_once(raw) ==
    IF raw.result < 0 THEN IoErr(raw.errno) ELSE Ok(raw.result)

RetryAnyError(r) == IF r[1] = "Err" THEN NoRet ELSE r

\* The body of the loop in autorestart: `continue` on
\* ErrorKind::Interrupted, `break ret` on anything else.
RetryInterrupted(r) == IF r = IoErr("EINTR") THEN NoRet ELSE r

\* One iteration of the loop: `let ret = f();` and the match on it
autorestart_step ==
    /\ ret = NoRet
    /\ calls < Len(script)
    /\ calls' = calls + 1
    /\ ret' = RetryInterrupted(Fd_read_once(script[calls + 1]))
    /\ UNCHANGED <<script, procVars, reaperVars, decodeVars, pidfdVars, sigfdVars>>

---------------------------------------------------------------------------
(* SignalFd (src/src/signal_fd.rs), SignalMask::block (src/src/signal_mask.rs) *)

MaxTotal == 3

\* SIGUSR1 and SIGUSR2
SigSet == {10, 12}

\* size_of::<signalfd_siginfo>()
SIGINFO_SIZE == 128

\* ArrayVec<signalfd_siginfo, 100>
BATCH_CAP == 100

Min(a, b) == IF a <= b THEN a ELSE b

NewOrderFdFirst == <<"signalfd", "block", "register">>

\* The calls of SignalFd::new in program order: sigmask.block(),
\* libc::signalfd(), AsyncFd::with_interest().
NewOrder == <<"block", "signalfd", "register">>

\* One call of SignalFd::new, which succeeds or fails.  A failure returns
\* the error: the Fd, if new() holds one by then, is dropped and so closed;
\* a mask that was blocked stays blocked.
new_step ==
    /\ sfd.st = "new"
    /\ \E ok \in BOOLEAN :
         LET call == NewOrder[sfd.step] IN
         IF ok
         THEN /\ blocked' = IF call = "block" THEN blocked \cup sfd.mask
                            ELSE blocked
              /\ sfd' = [sfd EXCEPT !.fd = IF call = "signalfd" THEN TRUE ELSE @,
                                    !.step = @ + 1,
                                    !.st = IF sfd.step = Len(NewOrder)
                                           THEN "open" ELSE @]
         ELSE /\ sfd' = [sfd EXCEPT !.st = "failed", !.fd = FALSE,
                                    !.err = call]
              /\ UNCHANGED blocked
    /\ UNCHANGED <<pending, ready, reader, total, procVars, reaperVars,
                   decodeVars, pidfdVars, retryVars>>

\* kill(2) with a signal the process has blocked: it becomes pending.
\* These are standard signals: one pending instance of each.
Send(sig) ==
    /\ sig \in blocked
    /\ sig \notin pending
    /\ pending' = pending \cup {sig}
    /\ UNCHANGED <<blocked, sfd, ready, reader, total, procVars, reaperVars,
                   decodeVars, pidfdVars, retryVars>>

\* The signals a read(2) of the signalfd can return
Available == pending \cap sfd.mask

\* The reactor sees the descriptor readable and caches that.
Reactor ==
    /\ sfd.st = "open"
    /\ ~ready
    /\ Available # {}
    /\ ready' = TRUE
    /\ UNCHANGED <<blocked, pending, sfd, reader, total, procVars, reaperVars,
                   decodeVars, pidfdVars, retryVars>>

\* SignalFd::read is called and reaches `self.inner.readable().await`
read_call ==
    /\ sfd.st = "open"
    /\ reader.pc = "idle"
    /\ total < MaxTotal
    /\ reader' = [reader EXCEPT !.pc = "await", !.ret = NoRet]
    /\ UNCHANGED <<blocked, pending, sfd, ready, total, procVars, reaperVars,
                   decodeVars, pidfdVars, retryVars>>

\* readable().await resolves when the cached readiness is set
readable_resolves ==
    /\ reader.pc = "await"
    /\ ready
    /\ reader' = [reader EXCEPT !.pc = "try_io"]
    /\ UNCHANGED <<blocked, pending, sfd, ready, total, procVars, reaperVars,
                   decodeVars, pidfdVars, retryVars>>

\* read(2) on the signalfd with a buffer of len bytes: as many whole
\* records as are available and fit, or EAGAIN (the descriptor is
\* non-blocking) when none is available.
signalfd_read(len) ==
    IF Available = {}
    THEN IoErr("EAGAIN")
    ELSE Ok(Min(len \div SIGINFO_SIZE, Cardinality(Available)) * SIGINFO_SIZE)

\* The kernel dequeues the lowest-numbered signals first.
Dequeued(n) ==
    { sig \in Available : Cardinality({ t \in Available : t < sig }) < n }

OnWouldBlockReturn(rd) == [rd EXCEPT !.pc = "idle", !.ret = IoErr("EAGAIN")]

\* read_bytes: `Err(_would_block) => continue`
OnWouldBlock(rd) == [rd EXCEPT !.pc = "await"]

\* `guard.try_io(|inner| inner.get_ref().read(out))` and what read() does
\* with the byte count.  try_io clears the cached readiness when the closure
\* fails with WouldBlock.
try_io ==
    /\ reader.pc = "try_io"
    /\ LET r == signalfd_read(BATCH_CAP * SIGINFO_SIZE) IN
         IF r = IoErr("EAGAIN")
         THEN /\ ready' = FALSE
              /\ reader' = OnWouldBlock(reader)
              /\ UNCHANGED <<pending, total>>
         ELSE LET cnt == r[2]
                  items == cnt \div SIGINFO_SIZE
              IN /\ reader' = [reader EXCEPT
                                  !.pc = "idle",
                                  !.cnt = cnt,
                                  !.ret = IF cnt % SIGINFO_SIZE = 0
                                          THEN Ok(Dequeued(items)) ELSE Panic]
                 /\ pending' = pending \ Dequeued(items)
                 /\ total' = Min(total + items, MaxTotal)
                 /\ UNCHANGED ready
    /\ UNCHANGED <<blocked, sfd, procVars, reaperVars, decodeVars, pidfdVars,
                   retryVars>>

---------------------------------------------------------------------------
(* Specifications *)

\* The program has no PidFd part.
PidFdIdle ==
    /\ traced = FALSE
    /\ fdtable = <<>>
    /\ handle = <<>>

\* No call of autorestart is under way.
RetryIdle == script = <<>> /\ calls = 0 /\ ret = NoRet

NoSfd == [st |-> "none", step |-> 1, mask |-> {}, fd |-> FALSE, err |-> "none"]
NoReader == [pc |-> "idle", ret |-> NoRet, cnt |-> 0]

\* The program has no SignalFd part.
SignalFdIdle ==
    /\ blocked = {}
    /\ pending = {}
    /\ sfd = <<>>
    /\ ready = FALSE
    /\ reader = <<>>
    /\ total = 0

\* The state after Reaper::new() returned: one Arc with the caller, one with
\* the spawned task, which has not run yet.  The process may or may not have
\* long-lived children besides the ones the model spawns.
Init ==
    /\ child = [p \in Pids |-> FreeSlot(0)]
    /\ spawned = 0
    /\ sigchld = FALSE
    /\ others \in BOOLEAN
    /\ holders = 1
    /\ pc = "check"
    /\ fault = "none"
    /\ map = [p \in Pids |-> NoVal]
    /\ waiter = [w \in Waiters |-> Idle]
    /\ woke = FALSE
    /\ zAtWake = {}
    /\ published = {}
    /\ siginfo = NoSiginfo
    /\ dpc = {}
    /\ exit_status = Unset
    /\ term_sig = Unset
    /\ code = Unset
    /\ PidFdIdle
    /\ RetryIdle
    /\ SignalFdIdle

Next ==
    \/ \E p \in Pids : Spawn(p)
    \/ \E p \in Pids, d \in Deaths : Terminate(p, d)
    \/ ArcClone
    \/ ArcDrop
    \/ ReapLoopCond
    \/ ReapRead
    \/ ReapDrain
    \/ \E w \in Waiters, p \in Pids : wait_call(w, p)
    \/ \E w \in Waiters : wait_some(w)
    \/ \E w \in Waiters : wait_none(w)

Spec == Init /\ [][Next]_vars

\* The same program when the read of the signalfd can fail as well; a task
\* polled by the runtime gets its value once the registry holds it.
NextFault == Next \/ ReapReadErr

FairSpecFault ==
    /\ Init
    /\ [][NextFault]_vars
    /\ \A w \in Waiters : WF_vars(wait_some(w))

\* Decoding alone: every record the kernel can return, through both decoders.
InitDecode ==
    /\ child = [p \in Pids |-> FreeSlot(0)]
    /\ spawned = 0
    /\ sigchld = FALSE
    /\ others = FALSE
    /\ holders = 1
    /\ pc = "check"
    /\ fault = "none"
    /\ map = [p \in Pids |-> NoVal]
    /\ waiter = [w \in Waiters |-> Idle]
    /\ woke = FALSE
    /\ zAtWake = {}
    /\ published = {}
    /\ siginfo \in RawRecords
    /\ dpc = {}
    /\ exit_status = Unset
    /\ term_sig = Unset
    /\ code = Unset
    /\ PidFdIdle
    /\ RetryIdle
    /\ SignalFdIdle

NextDecode == ReaperDecode \/ PidFdDecode

SpecDecode == InitDecode /\ [][NextDecode]_vars

\* Everything of the Reaper and of the decoders at rest
ReaperIdle ==
    /\ child = [p \in Pids |-> FreeSlot(0)]
    /\ spawned = 0
    /\ sigchld = FALSE
    /\ others = FALSE
    /\ holders = 1
    /\ pc = "check"
    /\ fault = "none"
    /\ map = [p \in Pids |-> NoVal]
    /\ waiter = [w \in Waiters |-> Idle]
    /\ woke = FALSE
    /\ zAtWake = {}
    /\ published = {}
    /\ siginfo = NoSiginfo
    /\ dpc = {}
    /\ exit_status = Unset
    /\ term_sig = Unset
    /\ code = Unset

\* A program that uses PidFd: with a Reaper running in the same process,
\* or with none; where there is none, a debugger may be attached to the
\* children.  The children of the model are all the children there are.
InitPidFd ==
    /\ child = [p \in Pids |-> FreeSlot(0)]
    /\ spawned = 0
    /\ sigchld = FALSE
    /\ others = FALSE
    /\ \E station \in BOOLEAN :
         /\ holders = IF station THEN 1 ELSE 0
         /\ pc = IF station THEN "check" ELSE "exited"
         /\ traced \in (IF station THEN {FALSE} ELSE BOOLEAN)
    /\ fault = "none"
    /\ map = [p \in Pids |-> NoVal]
    /\ waiter = [w \in Waiters |-> Idle]
    /\ woke = FALSE
    /\ zAtWake = {}
    /\ published = {}
    /\ siginfo = NoSiginfo
    /\ dpc = {}
    /\ exit_status = Unset
    /\ term_sig = Unset
    /\ code = Unset
    /\ fdtable = [f \in FdNums |-> NoInst]
    /\ handle = [h \in Handles |-> NoHandle]
    /\ RetryIdle
    /\ SignalFdIdle

NextPidFd ==
    \/ \E p \in Pids : Spawn(p)
    \/ \E p \in Pids, d \in Deaths : Terminate(p, d)
    \/ ReapLoopCond
    \/ ReapRead
    \/ ReapDrain
    \/ \E h \in Handles, p \in Pids : open(h, p)
    \/ \E h \in Handles, p \in Pids : clone_from_raw(h, p)
    \/ \E h \in Handles : send_signal(h)
    \/ \E h \in Handles : wait_for_terminate_call(h)
    \/ \E h \in Handles : wait_for_terminate_ready(h)
    \/ \E h \in Handles : waitpid_call(h)
    \/ \E h \in Handles : waitpid_ready(h)
    \/ \E h \in Handles : wait_error(h)
    \/ \E h \in Handles : waitpid_waitid(h)
    \/ \E h \in Handles : Fd_drop(h)

SpecPidFd == InitPidFd /\ [][NextPidFd]_vars

\* autorestart alone: every script of outcomes
InitRetry ==
    /\ ReaperIdle
    /\ PidFdIdle
    /\ SignalFdIdle
    /\ script \in Scripts
    /\ calls = 0
    /\ ret = NoRet

SpecRetry == InitRetry /\ [][autorestart_step]_vars

\* SignalFd::new is called with a mask, in a process that has some of the
\* signals blocked already.
InitSignalFd ==
    /\ ReaperIdle
    /\ PidFdIdle
    /\ RetryIdle
    /\ blocked \in SUBSET SigSet
    /\ pending = {}
    /\ sfd \in { [NoSfd EXCEPT !.st = "new", !.mask = m] :
                   m \in (SUBSET SigSet) \ {{}} }
    /\ ready = FALSE
    /\ reader = NoReader
    /\ total = 0

NextSignalFd ==
    \/ new_step
    \/ \E sig \in SigSet : Send(sig)
    \/ Reactor
    \/ read_call
    \/ readable_resolves
    \/ try_io

SpecSignalFd == InitSignalFd /\ [][NextSignalFd]_vars

\* The signals keep being sent, the reactor and the reading task keep
\* running.
FairSpecSignalFd ==
    /\ InitSignalFd
    /\ [][NextSignalFd]_vars
    /\ \A sig \in SigSet : WF_vars(Send(sig))
    /\ WF_vars(Reactor)
    /\ WF_vars(read_call)
    /\ WF_vars(readable_resolves)
    /\ WF_vars(try_io)

---------------------------------------------------------------------------
(* Properties *)

Done(w) == waiter[w].st = "done"
Waiting(w) == waiter[w].st = "waiting"

\* The holder number g of pid p has been reaped by the kernel.
Reaped(p, g) == child[p].gen > g \/ (child[p].gen = g /\ child[p].st = "free")

\* C1: all tasks whose wait(P) returned hold the same record for P.
C1_AllWaitersSameRecord ==
    \A w1, w2 \in Waiters :
        (Done(w1) /\ Done(w2) /\ waiter[w1].pid = waiter[w2].pid)
            => waiter[w1].val.wstatus = waiter[w2].val.wstatus

\* C2: while the station has an external holder the background task keeps
\* looping: it has neither returned nor died, whatever children were
\* spawned, terminated and reaped so far.
C2_TaskKeepsLooping == holders >= 1 => pc \notin {"failed", "exited"}

\* C3: a wait(pid) called for a particular child returns only after the
\* kernel confirmed the reap of that child, and with the record inserted for
\* that child, not for another holder of the pid.
C3_RecordOfThatProcess ==
    \A w \in Waiters :
        Done(w) => /\ Reaped(waiter[w].pid, waiter[w].gen)
                   /\ waiter[w].val.of = waiter[w].gen

C5_ReaperDecoding ==
    "reaper" \in dpc =>
        IF siginfo.si_code = CLD_EXITED
        THEN exit_status = Some(siginfo.si_status) /\ term_sig = None
        ELSE term_sig = Some(siginfo.si_status) /\ exit_status = None

\* C6: ExitInfo::new yields Exited(status) for CLD_EXITED and Killed(signal)
\* for every other classification, and never aborts.
C6_PidFdDecoding ==
    "pidfd" \in dpc =>
        code = IF siginfo.si_code = CLD_EXITED
               THEN <<"Exited", siginfo.si_status>>
               ELSE <<"Killed", siginfo.si_status>>

\* C7: for every raw record exactly one of get_exit_status() / get_term_sig()
\* is Some, and it names the cause that get_code() names.
C7_SameDecoding ==
    dpc = {"reaper", "pidfd"} =>
        \/ /\ exit_status # None /\ term_sig = None
           /\ exit_status[1] = "Some" /\ code = <<"Exited", exit_status[2]>>
        \/ /\ term_sig # None /\ exit_status = None
           /\ term_sig[1] = "Some" /\ code = <<"Killed", term_sig[2]>>

\* C8: wait returns only with a value, the entry the registry holds for the
\* requested pid at that moment; a task whose map.wait resolved empty is
\* still inside wait and has observed nothing.
C8_WaitReturnsOnlyAValue ==
    /\ [](\A w \in Waiters :
            /\ Done(w) => /\ waiter[w].val # NoVal
                          /\ map[waiter[w].pid] # NoVal
                          /\ <<waiter[w].pid, waiter[w].val.of>> \in published
            /\ waiter[w].napped => waiter[w].st \in {"waiting", "done"}
            /\ Waiting(w) => waiter[w].val = NoVal)
    /\ [][\A w \in Waiters :
            (Waiting(w) /\ waiter'[w].st = "done")
                => (map[waiter[w].pid] # NoVal /\ waiter'[w].val = map[waiter[w].pid])]_vars
    /\ [][\A w \in Waiters :
            (Waiting(w) /\ waiter'[w].napped /\ ~waiter[w].napped)
                => (waiter'[w].st = "waiting" /\ waiter'[w].val = NoVal)]_vars

\* C8 witness: a wait that resolved empty, suspended again and then returned
\* the entry.
C8_Witness == \E w \in Waiters : Done(w) /\ waiter[w].napped

\* C9: a system-call error in the loop ends the task for good; from then on
\* the registry never changes, a wait for a pid that is not in the registry
\* does not return, and a wait for a pid that is in it returns (it does not
\* stay suspended for ever).
C9_FaultIsPermanent ==
    /\ [](fault # "none" => pc = "failed")
    /\ [][pc = "failed" => (pc' = "failed" /\ map' = map /\ published' = published)]_vars
    /\ [][\A w \in Waiters :
            (pc = "failed" /\ Waiting(w) /\ map[waiter[w].pid] = NoVal)
                => waiter'[w].st = "waiting"]_vars
    /\ \A w \in Waiters :
            []<>~(pc = "failed" /\ Waiting(w) /\ map[waiter[w].pid] # NoVal)

\* C9 witness: after the fault, one wait called for an inserted pid has
\* returned and one called for a pid not in the registry is still suspended.
C9_Witness ==
    /\ pc = "failed"
    /\ \E w \in Waiters : Done(w) /\ waiter[w].post
    /\ \E w \in Waiters :
           Waiting(w) /\ waiter[w].post /\ map[waiter[w].pid] = NoVal

\* C10 as claimed: the task exits only with no external holder left, and
\* only at a wake-up from the channel.
C10_ExitsOnlyAtWakeup == pc = "exited" => (holders = 0 /\ woke)

\* C10 amended: the task exits only with no external holder left, and only
\* when it evaluates the loop condition, which it does when it first runs
\* and after each completed drain.
C10_ExitsOnlyAtLoopCond ==
    /\ [](pc = "exited" => holders = 0)
    /\ [][(pc' = "exited" /\ pc # "exited") => (pc = "check" /\ holders = 0)]_vars
    /\ [][(pc = "check" /\ pc' # "check")
             => pc' = IF holders = 0 THEN "exited" ELSE "read"]_vars
    /\ [][(pc' = "check" /\ pc # "check") => (pc = "drain" /\ Zombies = {})]_vars

\* C10 witness: the task exited at a wake-up, after the drain.
C10_Witness == pc = "exited" /\ woke /\ holders = 0

\* The step is one by which handle h, in waitpid, calls the wait primitive.
WaitidStep(h) == handle[h].pc = "wp_ready" /\ handle'[h].pc = "idle"

\* C11: a handle acts on the process it was created for and on no other,
\* also once that process's pid belongs to a new process: the record
\* waitpid returns and the signal send_signal delivers are that process's,
\* and a step of the handle changes no other process.
C11_OnlyItsOwnProcess ==
    /\ [](\A h \in Handles :
            handle[h].res.kind \in {"Info", "Sent"}
                => handle[h].res.of = handle[h].of)
    /\ [][\A h \in Handles, p \in Pids :
            (handle[h].st = "open" /\ handle'[h] # handle[h]
                /\ child'[p] # child[p])
                => Current(p) = handle[h].of]_vars
    /\ [][\A h \in Handles :
            (WaitidStep(h) /\ handle'[h].res.kind = "Info")
                => handle'[h].res.code =
                       get_code(ExitInfo_new(child[handle[h].of[1]]))]_vars

\* C11 witness: the pid of the handle's process belongs to a new process,
\* itself a zombie, and waitpid on the handle failed instead of taking it.
C11_Witness ==
    \E h \in Handles :
        /\ handle[h].st = "open"
        /\ child[handle[h].of[1]].gen > handle[h].of[2]
        /\ child[handle[h].of[1]].st = "zombie"
        /\ handle[h].res = Err("ECHILD")

\* C12 as claimed: with a Reaper in the process, waitpid on the handle of a
\* terminated child does not miss the child's record: it never fails with
\* ECHILD for a child that the Reaper reaped.
C12_IndependentOfStation ==
    \A h \in Handles :
        handle[h].of \in published => handle[h].res # Err("ECHILD")

\* C12 amended: waitpid returns the child's record if the child is still an
\* unreaped zombie when waitpid calls the wait primitive; if the child has
\* been reaped by then, as by the Reaper's drain, waitpid returns the error
\* ECHILD, and no record.
C12_RecordUnlessReapedFirst ==
    /\ [][\A h \in Handles :
            WaitidStep(h) =>
                IF Zombie(handle[h].of) /\ ~traced
                THEN /\ handle'[h].res.kind = "Info"
                     /\ handle'[h].res.of = handle[h].of
                ELSE IF Reaped(handle[h].of[1], handle[h].of[2])
                THEN handle'[h].res = Err("ECHILD")
                ELSE handle'[h].res.kind # "Info"]_vars
    /\ [](\A h \in Handles :
            handle[h].res = Err("ECHILD")
                => Reaped(handle[h].of[1], handle[h].of[2]))

\* C12 witness: the Reaper reaped the child first and waitpid on the child's
\* handle returned ECHILD.
C12_Witness ==
    \E h \in Handles :
        handle[h].of \in published /\ handle[h].res = Err("ECHILD")

C14_WaitpidOutcomes ==
    /\ [](\A h \in Handles : handle[h].pc = "wp_ready" => ~Running(handle[h].of))
    /\ [][\A h \in Handles :
            (handle'[h].res.kind = "Info" /\ handle'[h].res # handle[h].res)
                => (WaitidStep(h) /\ waitid_pidfd(handle[h].of).ret = "Some")]_vars
    /\ [][\A h \in Handles :
            (handle[h].pc = "wp" /\ handle'[h].pc = "idle")
                => handle'[h].res.kind = "Err"]_vars
    /\ [][\A h \in Handles :
            WaitidStep(h) =>
                CASE waitid_pidfd(handle[h].of).ret = "Some" ->
                        handle'[h].res.kind = "Info"
                  [] waitid_pidfd(handle[h].of).ret = "Err" ->
                        handle'[h].res.kind = "Err"
                  [] waitid_pidfd(handle[h].of).ret = "None" ->
                        /\ handle'[h].res.kind = "Panic"
                        /\ handle'[h].pc # "wp"]_vars

\* C14 witness: the descriptor was readable, the wait primitive had no
\* result, and waitpid panicked.
C14_Witness ==
    \E h \in Handles : handle[h].res = PanicRes /\ Zombie(handle[h].of)

\* C15: a handle's descriptor is open and refers to the handle's process
\* from creation until the handle is dropped, is closed once by the drop,
\* is owned by one handle only, and no descriptor is open that no handle
\* owns: a failed open leaves none, and when all handles are dropped the
\* open descriptors are those from before.
C15_DescriptorClosedOnce ==
    /\ \A h \in Handles :
         /\ handle[h].st = "open"
               => (fdtable[handle[h].fd] = handle[h].of /\ handle[h].closes = 0)
         /\ handle[h].st = "dropped" => handle[h].closes = 1
         /\ handle[h].st \in {"none", "failed"} => handle[h].closes = 0
    /\ \A g, h \in Handles :
         (g # h /\ handle[g].st = "open" /\ handle[h].st = "open")
             => handle[g].fd # handle[h].fd
    /\ OpenFds = { handle[h].fd : h \in { g \in Handles : handle[g].st = "open" } }

\* C15 witness: handles were opened, waited on and dropped, an open failed,
\* and no descriptor is open.
C15_Witness ==
    /\ \E h \in Handles : handle[h].st = "dropped"
    /\ \E h \in Handles : handle[h].st = "failed"
    /\ OpenFds = {}

\* The first call of the script whose outcome is not "interrupted"
FirstOther(sc) ==
    CHOOSE i \in 1..Len(sc) :
        sc[i] # Interrupted /\ \A j \in 1..(i - 1) : sc[j] = Interrupted

\* C16: autorestart invokes the operation once more after each
\* "interrupted" and not again after any other outcome: with M
\* interruptions first it has made M + 1 calls when it returns, it returns
\* what call M + 1 gave, success or other error, and it never returns
\* "interrupted".
C16_RetryTransparent ==
    /\ ret # NoRet =>
          /\ calls = FirstOther(script)
          /\ ret = Fd_read_once(script[FirstOther(script)])
    /\ ret # IoErr("EINTR")
    /\ ret = NoRet => \A i \in 1..calls : script[i] = Interrupted

\* C16 witness: the most interruptions of the model, then a success, which
\* is returned after one call more.
C16_Witness ==
    /\ calls = MaxIntr + 1
    /\ ret = Ok(128)
    /\ \A i \in 1..MaxIntr : script[i] = Interrupted

\* C17: every batch SignalFd::read returns holds only signals of the
\* creation mask, a whole number of records, at least one and at most
\* BATCH_CAP; EAGAIN is never returned, the loop goes back to waiting for
\* readiness; and with the signals being sent and the tasks running the
\* reads deliver any required total of records.
C17_ReadDelivers ==
    /\ [](reader.ret # NoRet =>
            /\ reader.ret[1] = "Ok"
            /\ reader.ret[2] \subseteq sfd.mask
            /\ reader.ret[2] # {}
            /\ Cardinality(reader.ret[2]) <= BATCH_CAP
            /\ reader.cnt = Cardinality(reader.ret[2]) * SIGINFO_SIZE)
    /\ [][(reader.pc = "try_io" /\ reader' # reader /\ Available = {})
             => (reader'.pc = "await" /\ reader'.ret = NoRet /\ ~ready')]_vars
    /\ (sfd.st = "open") ~> (total = MaxTotal)

\* C17 witness: records were delivered, a later read found none (EAGAIN)
\* and is waiting for readiness again.
C17_Witness ==
    total >= 1 /\ ~ready /\ reader.pc = "await" /\ reader.ret = NoRet

\* C20: SignalFd::new blocks the mask before it creates the descriptor:
\* whenever the descriptor exists its signals are blocked; a failed block
\* returns the error with no descriptor created and nothing blocked; a
\* failed signalfd() returns the error with no descriptor; and whenever
\* new() has failed no descriptor is left and no SignalFd exists.
C20_BlockedBeforeCreated ==
    /\ [](sfd.fd => sfd.mask \subseteq blocked)
    /\ [][(sfd'.fd /\ ~sfd.fd) => sfd.mask \subseteq blocked]_vars
    /\ [][(sfd.st = "new" /\ sfd'.st = "failed" /\ sfd'.err = "block")
             => (~sfd.fd /\ ~sfd'.fd /\ blocked' = blocked)]_vars
    /\ [][(sfd.st = "new" /\ sfd'.st = "failed" /\ sfd'.err = "signalfd")
             => (~sfd.fd /\ ~sfd'.fd)]_vars
    /\ [](sfd.st = "failed" => ~sfd.fd)
    /\ [][sfd.st = "failed" => sfd' = sfd]_vars

\* C20 witness: the descriptor exists, new() has not returned yet, and a
\* signal of the mask is pending, held back by the block.
C20_Witness ==
    sfd.fd /\ sfd.st = "new" /\ pending \cap sfd.mask # {}

\* C18 as claimed: the loop inserts a record for a pid only when the
\* registry holds no record for that pid.
C18_NoInsertOverHeld ==
    [][\A p \in Pids : map'[p] # map[p] => map[p] = NoVal]_vars

\* C19: no entry of the registry is ever removed: a pid that has a record
\* keeps having one, no step of wait changes the registry, and once a
\* wait(P) has returned the record of P is there for any later wait(P)
\* to return with at once.
C19_EntriesNeverRemoved ==
    /\ [][\A p \in Pids : map[p] # NoVal => map'[p] # NoVal]_vars
    /\ [][waiter' # waiter => map' = map]_vars
    /\ [](\A w \in Waiters : Done(w) => map[waiter[w].pid] # NoVal)
    /\ [][\A w \in Waiters :
            (Waiting(w) /\ Done(w)') => waiter'[w].val = map[waiter[w].pid]]_vars

\* C19 witness: two calls of wait for one pid have returned, the second of
\* them made after the background task had failed, when no insertion could
\* follow any more.
C19_Witness ==
    /\ Done("t1") /\ Done("t2")
    /\ waiter["t1"].pid = waiter["t2"].pid
    /\ ~waiter["t1"].post /\ waiter["t2"].post

\* C21: a handle gives out at most one record: waitpid returns a record
\* only by reaping the handle's own process, which was unreaped until
\* then; a reaped process stays reaped for as long as the handle lives;
\* and a waitpid that calls the wait primitive when the process has been
\* reaped ends in an error or a panic.
C21_AtMostOneRecord ==
    /\ [][\A h \in Handles :
            (WaitidStep(h) /\ handle'[h].res.kind = "Info")
                => /\ handle'[h].res.of = handle[h].of
                   /\ Zombie(handle[h].of)
                   /\ child'[handle[h].of[1]].gen = handle[h].of[2]
                   /\ child'[handle[h].of[1]].st = "free"]_vars
    /\ [][\A h \in Handles :
            (handle[h].st = "open" /\ handle'[h].st = "open"
                /\ Reaped(handle[h].of[1], handle[h].of[2]))
                => /\ handle'[h].of = handle[h].of
                   /\ \/ child'[handle[h].of[1]].gen > handle[h].of[2]
                      \/ /\ child'[handle[h].of[1]].gen = handle[h].of[2]
                         /\ child'[handle[h].of[1]].st = "free"]_vars
    /\ [][\A h \in Handles :
            (WaitidStep(h) /\ Reaped(handle[h].of[1], handle[h].of[2]))
                => handle'[h].res.kind \in {"Err", "Panic"}]_vars

\* C21 witness: the only handle there is reaped its process, no Reaper
\* being there to do it, another child is a zombie by now, and a later
\* waitpid on the handle returned ECHILD.
C21_Witness ==
    /\ handle["h1"].st = "open" /\ handle["h2"].st = "none"
    /\ pc = "exited" /\ published = {}
    /\ Reaped(handle["h1"].of[1], handle["h1"].of[2])
    /\ handle["h1"].res = Err("ECHILD")
    /\ Zombies # {}

===========================================================================
